---- MODULE Spec2Model ----
(***************************************************************************)
(* A model of the slaw freestanding library (iannisdezwart/slaw):          *)
(*   - the heap allocator of mem.hpp, on a byte-addressed linear memory;   *)
(*   - the Vector<T> container of vector.hpp.                              *)
(* The target is the 32-bit WebAssembly build: usize and every pointer is  *)
(* four bytes, little-endian, and the linear memory starts zero-filled.    *)
(***************************************************************************)
EXTENDS Integers, Sequences, FiniteSets, TLC

VARIABLES
    mem,              \* linear memory: byte address -> non-zero byte (absent = 0)
    heap_end,         \* slaw::mem::heap_end
    first_free_block, \* slaw::mem::first_free_block
    last_block,       \* slaw::mem::last_block
    status,           \* "ok", or how the last allocator call left the machine
    live,             \* the allocations the caller holds: [id, ptr, n]
    freed,            \* pointers the caller has passed to free
    nAllocs,          \* number of alloc calls so far
    lastOp,           \* the call that produced this state
    hist,             \* the calls so far (recorded by the scenario workload only)
    workload,         \* which request sizes the caller draws from
    vecs,             \* the Vector objects of the caller: name -> [data, size, capacity]
    arrays,           \* backing arrays handed out by new T[]: id -> [len, state]
    vecOp,            \* the Vector call that produced this state
    freeOfNull,       \* how delete[] of a null pointer ends (fixed by Init)
    rot,              \* the rotate calls made so far: the elements before, the shift
    ref,              \* the push_back / pop_back workload and its reference stack
    grow,             \* size and capacity of a vector as 32-bit words, and the growth made
    calc              \* a call of a pure function: its arguments and what it returned

memVars == <<mem, heap_end, first_free_block, last_block, status,
             live, freed, nAllocs, lastOp, hist, workload>>
vecVars == <<vecs, arrays, vecOp, freeOfNull, rot, ref, grow, calc>>
vars == <<memVars, vecVars>>

(***************************************************************************)
(* Bounds of the model.                                                    *)
(***************************************************************************)
\* total number of alloc calls in one run
MaxAllocs == 4
\* total number of calls in one run of the scenario workload
MaxScenarioOps == 5
\* address of the linker label __heap_base
HeapBase == 1024
\* first address past the linear memory the model tracks
MemLimit == 65536

(***************************************************************************)
(* Layout of the block headers (wasm32).                                   *)
(***************************************************************************)
Null == 0
\* sizeof(HeapBlockHeader): u8 flags (+3 padding), usize size, pointer prev_block
HeaderSize == 12
\* sizeof(FreeHeapBlockHeader): the header plus prev_free_block, next_free_block
FreeHeaderSize == 20
free_bit == 1
OffSize == 4
OffPrevBlock == 8
OffPrevFree == 12
OffNextFree == 16

(***************************************************************************)
(* Linear memory.  A byte that is absent from mem is zero.  A 32-bit read  *)
(* whose top byte is non-zero is reported as Huge: every such value lies   *)
(* beyond MemLimit, so using it as an address leaves the tracked memory.   *)
(***************************************************************************)
Huge == 256 * 65536

InMem(a, n) == a >= HeapBase /\ a + n <= MemLimit

Rd8(m, a) == IF a \in DOMAIN m THEN m[a] ELSE 0

Rd32(m, a) ==
    IF Rd8(m, a + 3) # 0 THEN Huge
    ELSE Rd8(m, a) + 256 * Rd8(m, a + 1) + 65536 * Rd8(m, a + 2)

ByteOf(v, k) ==
    IF k = 0 THEN v % 256
    ELSE IF k = 1 THEN (v \div 256) % 256
    ELSE IF k = 2 THEN (v \div 65536) % 256
    ELSE (v \div 16777216) % 256

Wr(m, a, n, v) ==
    LET rng == a .. (a + n - 1)
        keep == {i \in DOMAIN m : i \notin rng}
        set == {i \in rng : ByteOf(v, i - a) # 0}
    IN [i \in keep \cup set |-> IF i \in rng THEN ByteOf(v, i - a) ELSE m[i]]

(***************************************************************************)
(* The machine an allocator call runs on: the memory and the three globals,*)
(* plus what the call did (status, path taken, stray writes, result).      *)
(***************************************************************************)
Machine(m, he, ff, lb) ==
    [mem |-> m, heap_end |-> he, first_free_block |-> ff, last_block |-> lb,
     status |-> "ok", path |-> "", oob |-> FALSE, ret |-> Null]

\* an access outside the tracked memory (a null or wild pointer dereference)
Touch(M, a, n) ==
    IF M.status = "ok" /\ ~InMem(a, n) THEN [M EXCEPT !.status = "fault"] ELSE M

Put(M, a, n, v) ==
    IF M.status # "ok" THEN M
    ELSE IF ~InMem(a, n) THEN [M EXCEPT !.status = "fault"]
    ELSE [M EXCEPT !.mem = Wr(M.mem, a, n, v),
                   !.oob = M.oob \/ (a + n > M.heap_end)]

Flags(M, b) == Rd8(M.mem, b)
SizeOf(M, b) == Rd32(M.mem, b + OffSize)
PrevBlock(M, b) == Rd32(M.mem, b + OffPrevBlock)
PrevFree(M, b) == Rd32(M.mem, b + OffPrevFree)
NextFree(M, b) == Rd32(M.mem, b + OffNextFree)

is_free(M, b) == (Flags(M, b) \div free_bit) % 2 = 1

set_free(M, b) ==
    LET M1 == Touch(M, b, 1)
    IN Put(M1, b, 1, IF Flags(M1, b) % 2 = 1 THEN Flags(M1, b) ELSE Flags(M1, b) + 1)

set_allocated(M, b) ==
    LET M1 == Touch(M, b, 1)
    IN Put(M1, b, 1, Flags(M1, b) - (Flags(M1, b) % 2))

get_start_ptr(b) == b + HeaderSize

get_end_ptr(M, b) == b + HeaderSize + SizeOf(M, b)

next_block(M, b) == get_end_ptr(M, b)

remove_from_free_block_list(M, b) ==
    LET M0 == Touch(M, b, FreeHeaderSize)
        M1 == IF PrevFree(M0, b) # Null
              THEN Put(M0, PrevFree(M0, b) + OffNextFree, 4, NextFree(M0, b))
              ELSE M0
        M2 == IF NextFree(M1, b) # Null
              THEN Put(M1, NextFree(M1, b) + OffPrevFree, 4, PrevFree(M1, b))
              ELSE M1
    IN M2

alloc_end(M, size) ==
    LET header == M.heap_end
        M1 == [M EXCEPT !.heap_end = header + HeaderSize + size]
        M2 == Put(M1, header + OffSize, 4, size)
        M3 == set_allocated(M2, header)
        M4 == Put(M3, header + OffPrevBlock, 4, M.last_block)
    IN [M4 EXCEPT !.last_block = header, !.ret = get_start_ptr(header),
                  !.path = "extend"]

\* a walk that passes over a block of exactly the requested size
RECURSIVE FirstFit_strict(_, _, _, _)
FirstFit_strict(M, fb, size, seen) ==
    IF fb = Null THEN [blk |-> Null, status |-> "ok"]
    ELSE IF ~InMem(fb, FreeHeaderSize) THEN [blk |-> Null, status |-> "fault"]
    ELSE IF SizeOf(M, fb) > size THEN [blk |-> fb, status |-> "ok"]
    ELSE IF fb \in seen THEN [blk |-> Null, status |-> "hang"]
    ELSE FirstFit_strict(M, NextFree(M, fb), size, seen \cup {fb})

\* the walk of lines 249-254: the first block of the free list with size >= size
RECURSIVE FirstFit(_, _, _, _)
FirstFit(M, fb, size, seen) ==
    IF fb = Null THEN [blk |-> Null, status |-> "ok"]
    ELSE IF ~InMem(fb, FreeHeaderSize) THEN [blk |-> Null, status |-> "fault"]
    ELSE IF SizeOf(M, fb) >= size THEN [blk |-> fb, status |-> "ok"]
    ELSE IF fb \in seen THEN [blk |-> Null, status |-> "hang"]
    ELSE FirstFit(M, NextFree(M, fb), size, seen \cup {fb})

\* alloc_split with the residual computed without the carved header
alloc_split_keeps_header(M, free_block, size) ==
    LET new_block == get_end_ptr(M, free_block) - size - HeaderSize
        M1 == Put(M, new_block + OffSize, 4, size)
        M2 == set_allocated(M1, new_block)
        M3 == Put(M2, new_block + OffPrevBlock, 4, free_block)
        M4 == Put(M3, free_block + OffSize, 4, SizeOf(M3, free_block) - size)
        nb == get_end_ptr(M4, new_block)
        M5 == Put(M4, nb + OffPrevBlock, 4, new_block)
    IN [M5 EXCEPT !.ret = get_start_ptr(new_block), !.path = "split"]

alloc_split(M, free_block, size) ==
    LET new_block == get_end_ptr(M, free_block) - size - HeaderSize
        M1 == Put(M, new_block + OffSize, 4, size)
        M2 == set_allocated(M1, new_block)
        M3 == Put(M2, new_block + OffPrevBlock, 4, free_block)
        M4 == Put(M3, free_block + OffSize, 4,
                  SizeOf(M3, free_block) - HeaderSize - size)
        nb == get_end_ptr(M4, new_block)
        M5 == Put(M4, nb + OffPrevBlock, 4, new_block)
    IN [M5 EXCEPT !.ret = get_start_ptr(new_block), !.path = "split"]

alloc_whole(M, free_block) ==
    LET M1 == remove_from_free_block_list(M, free_block)
        M2 == set_allocated(M1, free_block)
        M3 == IF free_block = M2.first_free_block
              THEN [M2 EXCEPT !.first_free_block = NextFree(M2, free_block)]
              ELSE M2
    IN [M3 EXCEPT !.ret = get_start_ptr(free_block), !.path = "whole"]

\* an alloc that does not round small requests up
alloc_unrounded(M, n) ==
    LET size == n
        fit == FirstFit(M, M.first_free_block, size, {})
    IN IF M.first_free_block = Null THEN alloc_end(M, size)
       ELSE IF fit.status # "ok" THEN [M EXCEPT !.status = fit.status]
       ELSE IF fit.blk = Null THEN alloc_end(M, size)
       ELSE IF SizeOf(M, fit.blk) - size >= HeaderSize
            THEN alloc_split(M, fit.blk, size)
       ELSE alloc_whole(M, fit.blk)

alloc(M, n) ==
    LET size == IF n < FreeHeaderSize THEN FreeHeaderSize ELSE n
        fit == FirstFit(M, M.first_free_block, size, {})
    IN IF M.first_free_block = Null THEN alloc_end(M, size)
       ELSE IF fit.status # "ok" THEN [M EXCEPT !.status = fit.status]
       ELSE IF fit.blk = Null THEN alloc_end(M, size)
       ELSE IF SizeOf(M, fit.blk) - size >= HeaderSize
            THEN alloc_split(M, fit.blk, size)
       ELSE alloc_whole(M, fit.blk)

merge_two_free_blocks(M, block1, block2) ==
    LET M0 == Touch(Touch(M, block1, FreeHeaderSize), block2, FreeHeaderSize)
        nb == get_end_ptr(M0, block2)
        M1 == Put(M0, nb + OffPrevBlock, 4, block1)
        M2 == Put(M1, block1 + OffSize, 4,
                  SizeOf(M1, block1) + SizeOf(M1, block2) + HeaderSize)
    IN remove_from_free_block_list(M2, block2)

merge_three_free_blocks(M, block1, block2, block3) ==
    LET M0 == Touch(Touch(Touch(M, block1, FreeHeaderSize),
                          block2, FreeHeaderSize), block3, FreeHeaderSize)
        nb == get_end_ptr(M0, block3)
        M1 == Put(M0, nb + OffPrevBlock, 4, block1)
        M2 == Put(M1, block1 + OffSize, 4,
                  SizeOf(M1, block1) + SizeOf(M1, block2) + SizeOf(M1, block3)
                  + FreeHeaderSize * 2)
        M3 == remove_from_free_block_list(M2, block2)
    IN remove_from_free_block_list(M3, block3)

maybe_merge_free_blocks(M, block) ==
    LET prev == PrevBlock(M, block)
        next == next_block(M, block)
        prev_exists == prev # Null
        next_exists == get_end_ptr(M, block) # M.heap_end
        prev_free == prev_exists /\ InMem(prev, 1) /\ is_free(M, prev)
        next_free == next_exists /\ InMem(next, 1) /\ is_free(M, next)
        Mp == IF prev_exists THEN Touch(M, prev, 1) ELSE M
        Mn == IF next_exists THEN Touch(Mp, next, 1) ELSE Mp
    IN IF Mn.status # "ok" THEN Mn
       ELSE IF prev_free /\ next_free
            THEN [merge_three_free_blocks(Mn, prev, block, next)
                    EXCEPT !.path = M.path \o "+merge3"]
       ELSE IF prev_free
            THEN [merge_two_free_blocks(Mn, prev, block)
                    EXCEPT !.path = M.path \o "+merge_prev"]
       ELSE IF next_free
            THEN [merge_two_free_blocks(Mn, block, next)
                    EXCEPT !.path = M.path \o "+merge_next"]
       ELSE Mn

\* the walk of lines 526-531: the nearest physical predecessor that is free
RECURSIVE SearchPrevFree(_, _, _)
SearchPrevFree(M, search, seen) ==
    IF ~InMem(search, HeaderSize) THEN [blk |-> Null, status |-> "fault"]
    ELSE IF is_free(M, search) THEN [blk |-> search, status |-> "ok"]
    ELSE IF search \in seen THEN [blk |-> Null, status |-> "hang"]
    ELSE SearchPrevFree(M, PrevBlock(M, search), seen \cup {search})

free_first(M, block) ==
    LET M1 == [M EXCEPT !.first_free_block = block]
        M2 == Put(M1, block + OffPrevFree, 4, Null)
        M3 == Put(M2, block + OffNextFree, 4, Null)
    IN [M3 EXCEPT !.path = "first"]

free_head(M, block) ==
    LET M1 == Put(M, M.first_free_block + OffPrevFree, 4, block)
        M2 == Put(M1, block + OffNextFree, 4, M.first_free_block)
        M3 == Put(M2, block + OffPrevFree, 4, Null)
        M4 == [M3 EXCEPT !.first_free_block = block, !.path = "head"]
    IN maybe_merge_free_blocks(M4, block)

free_tail(M, block) ==
    IF PrevBlock(M, block) # Null /\ is_free(M, block)
    THEN LET prev_block == PrevBlock(M, block)
             M1 == remove_from_free_block_list(M, prev_block)
         IN [M1 EXCEPT !.heap_end = prev_block, !.path = "tail_prev"]
    ELSE [M EXCEPT !.heap_end = block, !.path = "tail_self"]

free_middle(M, block) ==
    LET s == SearchPrevFree(M, PrevBlock(M, block), {})
        prev_free_block == s.blk
        M0 == Touch(M, prev_free_block, FreeHeaderSize)
        M1 == Put(M0, block + OffPrevFree, 4, prev_free_block)
        M2 == Put(M1, block + OffNextFree, 4, NextFree(M1, prev_free_block))
        M3 == IF NextFree(M2, prev_free_block) # Null
              THEN Put(M2, NextFree(M2, prev_free_block) + OffPrevFree, 4, block)
              ELSE M2
        M4 == Put(M3, prev_free_block + OffNextFree, 4, block)
    IN IF s.status # "ok" THEN [M EXCEPT !.status = s.status]
       ELSE maybe_merge_free_blocks([M4 EXCEPT !.path = "middle"], block)

\* free without the early return on a block that is already free
free_without_guard(M, ptr) ==
    LET block == ptr - HeaderSize
        M0 == Touch(M, block, FreeHeaderSize)
        M1 == set_free(M0, block)
    IN IF M0.status # "ok" THEN M0
       ELSE IF M1.first_free_block = Null THEN free_first(M1, block)
       ELSE IF block < M1.first_free_block THEN free_head(M1, block)
       ELSE IF get_end_ptr(M1, block) >= M1.heap_end THEN free_tail(M1, block)
       ELSE free_middle(M1, block)

free(M, ptr) ==
    LET block == ptr - HeaderSize
        M0 == Touch(M, block, FreeHeaderSize)
        M1 == set_free(M0, block)
    IN IF M0.status # "ok" THEN M0
       ELSE IF is_free(M0, block) THEN [M0 EXCEPT !.path = "noop"]
       ELSE IF M1.first_free_block = Null THEN free_first(M1, block)
       ELSE IF block < M1.first_free_block THEN free_head(M1, block)
       ELSE IF get_end_ptr(M1, block) >= M1.heap_end THEN free_tail(M1, block)
       ELSE free_middle(M1, block)

(***************************************************************************)
(* The caller: the interactive driver of test/mem_allocator.cpp, which     *)
(* issues alloc <size> and free <ptr> calls against a fresh heap.          *)
(***************************************************************************)
SmallSizes == {16, 32, 64}

\* the request sizes of the walk-through in mem_test.cpp
ScenarioSizes == {50, 100, 200, 300}

Sizes == IF workload = "scenario" THEN ScenarioSizes ELSE SmallSizes

Cur == Machine(mem, heap_end, first_free_block, last_block)

MayCall ==
    /\ status = "ok"
    /\ workload = "scenario" => Len(hist) < MaxScenarioOps

Record(entry) == IF workload = "scenario" THEN Append(hist, entry) ELSE hist

Install(R) ==
    /\ mem' = R.mem
    /\ heap_end' = R.heap_end
    /\ first_free_block' = R.first_free_block
    /\ last_block' = R.last_block
    /\ status' = R.status

InitMem ==
    /\ mem = << >>
    /\ heap_end = HeapBase
    /\ first_free_block = Null
    /\ last_block = Null
    /\ status = "ok"
    /\ live = {}
    /\ freed = {}
    /\ nAllocs = 0
    /\ lastOp = [op |-> "init", arg |-> 0, ret |-> Null, path |-> "", oob |-> FALSE,
                 wasFree |-> FALSE]
    /\ hist = << >>

Alloc(n) ==
    /\ MayCall
    /\ nAllocs < MaxAllocs
    /\ LET R == alloc(Cur, n)
       IN /\ Install(R)
          /\ live' = IF R.status = "ok"
                     THEN live \cup {[id |-> nAllocs + 1, ptr |-> R.ret, n |-> n]}
                     ELSE live
          /\ lastOp' = [op |-> "alloc", arg |-> n, ret |-> R.ret, path |-> R.path,
                        oob |-> R.oob, wasFree |-> FALSE]
    /\ nAllocs' = nAllocs + 1
    /\ hist' = Record(<<"alloc", n>>)
    /\ UNCHANGED <<freed, workload, vecVars>>

Free(a) ==
    /\ MayCall
    /\ a \in live
    /\ LET R == free(Cur, a.ptr)
       IN /\ Install(R)
          /\ lastOp' = [op |-> "free", arg |-> a.ptr, ret |-> Null, path |-> R.path,
                        oob |-> R.oob,
                        wasFree |-> Rd8(mem, a.ptr - HeaderSize) % 2 = 1]
    /\ live' = live \ {a}
    /\ freed' = freed \cup {a.ptr}
    /\ hist' = Record(<<"free", a.id>>)
    /\ UNCHANGED <<nAllocs, workload, vecVars>>

\* a double free: free called again on a pointer that was freed before, has not
\* been handed out since, and whose block still carries the free bit
FreeAgain(p) ==
    /\ MayCall
    /\ p \in freed
    /\ \A a \in live : a.ptr # p
    /\ Rd8(mem, p - HeaderSize) % 2 = 1
    /\ LET R == free(Cur, p)
       IN /\ Install(R)
          /\ lastOp' = [op |-> "free", arg |-> p, ret |-> Null, path |-> R.path,
                        oob |-> R.oob,
                        wasFree |-> Rd8(mem, p - HeaderSize) % 2 = 1]
    /\ hist' = Record(<<"free_again", p>>)
    /\ UNCHANGED <<live, freed, nAllocs, workload, vecVars>>

CallAlloc == \E n \in Sizes : Alloc(n)
CallFree == \E a \in live : Free(a)
CallFreeAgain == \E p \in freed : FreeAgain(p)

NextMem == CallAlloc \/ CallFree \/ CallFreeAgain

(***************************************************************************)
(* What the heap looks like in a state: the physical chain, the free list. *)
(***************************************************************************)
\* the blocks met walking from a by this + header + size, while below heap_end
RECURSIVE ChainFrom(_, _)
ChainFrom(a, seen) ==
    IF a >= heap_end \/ a \in seen \/ ~InMem(a, HeaderSize) THEN << >>
    ELSE <<a>> \o ChainFrom(a + HeaderSize + Rd32(mem, a + OffSize), seen \cup {a})

Chain == ChainFrom(HeapBase, {})

ChainEnd ==
    IF Chain = << >> THEN HeapBase
    ELSE LET b == Chain[Len(Chain)] IN b + HeaderSize + Rd32(mem, b + OffSize)

BlockFree(b) == Rd8(mem, b) % 2 = 1

\* the blocks reached from first_free_block through next_free_block
RECURSIVE FreeListFrom(_, _)
FreeListFrom(a, seen) ==
    IF a = Null \/ a \in seen \/ ~InMem(a, FreeHeaderSize) THEN << >>
    ELSE <<a>> \o FreeListFrom(Rd32(mem, a + OffNextFree), seen \cup {a})

FreeList == FreeListFrom(first_free_block, {})

SeqSet(s) == {s[i] : i \in 1 .. Len(s)}


(***************************************************************************)
(* Vector<T> (vector.hpp).  A vector is the triple (data, size, capacity); *)
(* data names a backing array obtained from operator new[], or is Null.    *)
(* A backing array records the length it was requested with, the elements  *)
(* written to it (an index at or past len is a write past the array) and   *)
(* whether it has been passed to operator delete[].                        *)
(***************************************************************************)
\* number of operator new[] calls in one run
MaxArrays == 3
\* push_back and attach are not issued beyond this size
MaxVecSize == 2
\* Vector::min_capacity
min_capacity == 16
\* rotate is called on vectors of up to this size
MaxRotSize == 6
\* sizes of the vectors whose growth is computed on 32-bit words
MaxGrowSize == 3
\* push_back and pop_back calls of the free push/pop workload
MaxPushes == 18
MaxPops == 2

VecNames == {"a", "b"}
Elems == {1, 2}
\* capacities and sizes the caller passes to Vector(n), realloc(n), reserve(n)
CapArgs == {0, 1, min_capacity}

\* lengths N - 1 of the literals a Text is built from
LiteralLens == {0, 2}

NoVec == [alive |-> FALSE, data |-> Null, size |-> 0, capacity |-> 0]

VState(vs, as) == [vecs |-> vs, arrays |-> as, status |-> "ok", freeOfNull |-> freeOfNull]

\* operator new[] (mem.hpp 579-583): a fresh backing array of n elements
NewId(S) == Len(S.arrays) + 1

new_array(S, n) ==
    [S EXCEPT !.arrays = Append(S.arrays, [len |-> n, elems |-> << >>, live |-> TRUE])]

\* delete[] d: operator delete[] (mem.hpp 604-609) is slaw::mem::free(ptr);
\* with d null the statement ends as freeOfNull says
delete_array(S, d) ==
    IF S.status # "ok" THEN S
    ELSE IF d = Null THEN [S EXCEPT !.status = S.freeOfNull]
    ELSE IF ~S.arrays[d].live THEN [S EXCEPT !.status = "double_delete"]
    ELSE [S EXCEPT !.arrays[d] = [len |-> 0, elems |-> << >>, live |-> FALSE]]

\* data[i], read
Elem(S, d, i) ==
    IF d # Null /\ d \in DOMAIN S.arrays /\ i \in DOMAIN S.arrays[d].elems
    THEN S.arrays[d].elems[i] ELSE 0

\* data[i] = x
Store(S, d, i, x) ==
    IF S.status # "ok" THEN S
    ELSE IF d = Null THEN [S EXCEPT !.status = "fault"]
    ELSE [S EXCEPT !.arrays[d].elems =
              [j \in DOMAIN S.arrays[d].elems \cup {i} |->
                  IF j = i THEN x ELSE S.arrays[d].elems[j]]]

\* for (i = 0; i < n; i++) dst[to + i] = src[i], src read in the state S0
CopyElems(S, S0, dst, to, src, n) ==
    IF S.status # "ok" \/ n = 0 THEN S
    ELSE IF dst = Null \/ src = Null THEN [S EXCEPT !.status = "fault"]
    ELSE [S EXCEPT !.arrays[dst].elems =
              [j \in DOMAIN S.arrays[dst].elems \cup (to .. (to + n - 1)) |->
                  IF j \in to .. (to + n - 1) THEN Elem(S0, src, j - to)
                  ELSE S.arrays[dst].elems[j]]]

Min(x, y) == IF x < y THEN x ELSE y

VecCtor(S, v, initial_size) ==
    LET S1 == new_array(S, initial_size)
    IN [S1 EXCEPT !.vecs[v] = [alive |-> TRUE, data |-> NewId(S), size |-> 0,
                                capacity |-> initial_size]]

\* a copy that shares the source's array instead of allocating its own
VecCopyCtor_shallow(S, v, source) ==
    [S EXCEPT !.vecs[v] = [alive |-> TRUE, data |-> S.vecs[source].data,
                           size |-> S.vecs[source].size,
                           capacity |-> S.vecs[source].capacity]]

VecCopyCtor(S, v, source) ==
    LET src == S.vecs[source]
        S1 == new_array(S, src.capacity)
        S2 == [S1 EXCEPT !.vecs[v] = [alive |-> TRUE, data |-> NewId(S),
                                      size |-> src.size, capacity |-> src.capacity]]
    IN CopyElems(S2, S2, NewId(S), 0, src.data, src.size)

VecMoveCtor(S, v, source) ==
    LET src == S.vecs[source]
    IN [S EXCEPT !.vecs[v] = [alive |-> TRUE, data |-> src.data, size |-> src.size,
                               capacity |-> src.capacity],
                 !.vecs[source] = [alive |-> TRUE, data |-> Null, size |-> 0,
                                    capacity |-> 0]]

VecCopyAssign(S, v, source) ==
    IF v = source THEN S
    ELSE LET src == S.vecs[source]
             S1 == delete_array(S, S.vecs[v].data)
             S2 == new_array(S1, src.capacity)
             S3 == [S2 EXCEPT !.vecs[v] = [alive |-> TRUE, data |-> NewId(S1),
                                           size |-> src.size,
                                           capacity |-> src.capacity]]
         IN IF S1.status # "ok" THEN S1
            ELSE CopyElems(S3, S3, NewId(S1), 0, src.data, src.size)

VecMoveAssign(S, v, source) ==
    IF v = source THEN S
    ELSE LET src == S.vecs[source]
             S1 == delete_array(S, S.vecs[v].data)
         IN IF S1.status # "ok" THEN S1
            ELSE [S1 EXCEPT !.vecs[v] = [alive |-> TRUE, data |-> src.data,
                                         size |-> src.size,
                                         capacity |-> src.capacity],
                            !.vecs[source] = [alive |-> TRUE, data |-> Null,
                                              size |-> 0, capacity |-> 0]]

VecDtor(S, v) ==
    LET S1 == delete_array(S, S.vecs[v].data)
    IN IF S1.status # "ok" THEN S1 ELSE [S1 EXCEPT !.vecs[v] = NoVec]

\* a realloc that never releases the old array
VecRealloc_leak(S, v, new_capacity) ==
    LET V == S.vecs[v]
        S1 == new_array(S, new_capacity)
        S2 == CopyElems(S1, S1, NewId(S), 0, V.data, Min(V.size, new_capacity))
    IN [S2 EXCEPT !.vecs[v].data = NewId(S), !.vecs[v].capacity = new_capacity]

\* a realloc that moves to the new array without copying the elements
VecRealloc_nocopy(S, v, new_capacity) ==
    LET S1 == new_array(S, new_capacity)
        S3 == delete_array(S1, S.vecs[v].data)
    IN IF S3.status # "ok" THEN S3
       ELSE [S3 EXCEPT !.vecs[v].data = NewId(S), !.vecs[v].capacity = new_capacity]

VecRealloc(S, v, new_capacity) ==
    LET V == S.vecs[v]
        S1 == new_array(S, new_capacity)
        S2 == CopyElems(S1, S1, NewId(S), 0, V.data, Min(V.size, new_capacity))
        S3 == delete_array(S2, V.data)
    IN IF S3.status # "ok" THEN S3
       ELSE [S3 EXCEPT !.vecs[v].data = NewId(S),
                       !.vecs[v].capacity = new_capacity]

\* the doubling loop of reserve: 0 when it never ends
RECURSIVE GrowCapacity(_, _)
GrowCapacity(new_size, new_capacity) ==
    IF new_size <= new_capacity THEN new_capacity
    ELSE IF new_capacity = 0 THEN 0
    ELSE GrowCapacity(new_size, new_capacity * 2)

VecReserve(S, v, extra_size) ==
    LET V == S.vecs[v]
        new_size == V.size + extra_size
        new_capacity == GrowCapacity(new_size, V.capacity * 2)
    IN IF S.status # "ok" THEN S
       ELSE IF V.size + extra_size <= V.capacity THEN S
       ELSE IF new_size > new_capacity THEN [S EXCEPT !.status = "hang"]
       ELSE VecRealloc(S, v, new_capacity)

VecPushBack(S, v, element) ==
    LET S1 == IF S.vecs[v].size = S.vecs[v].capacity
              THEN VecRealloc(S, v, S.vecs[v].capacity * 2)
              ELSE S
        S2 == Store(S1, S1.vecs[v].data, S1.vecs[v].size, element)
    IN IF S2.status # "ok" THEN S2
       ELSE [S2 EXCEPT !.vecs[v].size = S1.vecs[v].size + 1]

VecPopBack(S, v) == [S EXCEPT !.vecs[v].size = S.vecs[v].size - 1]

VecAttach(S, v, other) ==
    LET S1 == VecReserve(S, v, S.vecs[other].size)
        n == S1.vecs[other].size
        S2 == CopyElems(S1, S1, S1.vecs[v].data, S1.vecs[v].size,
                        S1.vecs[other].data, n)
    IN IF S1.status # "ok" THEN S1
       ELSE IF other = v /\ n > 0 THEN [S1 EXCEPT !.status = "hang"]
       ELSE IF S2.status # "ok" THEN S2
       ELSE [S2 EXCEPT !.vecs[v].size = n]

\* for (i = from; i < size; i++) result[i] = value
RECURSIVE FillFrom(_, _, _, _, _)
FillFrom(S, d, i, size, value) ==
    IF S.status # "ok" \/ i >= size THEN S
    ELSE FillFrom(Store(S, d, i, value), d, i + 1, size, value)

\* v = Vector<T>::fill(size, value): the local result is returned by value
VecFill(S, v, size, value) ==
    LET S1 == VecCtor(S, v, size)
    IN FillFrom(S1, S1.vecs[v].data, 0, size, value)

\* v[i] = x (operator[], vector.hpp 229-233)
VecStore(S, v, i, x) == Store(S, S.vecs[v].data, i, x)

VecClear(S, v) ==
    LET S1 == [S EXCEPT !.vecs[v].size = 0, !.vecs[v].capacity = 0]
        S2 == delete_array(S1, S.vecs[v].data)
    IN IF S2.status # "ok" THEN S2 ELSE [S2 EXCEPT !.vecs[v].data = Null]

\* String(const char (&)[N]) (string.hpp 84-94): a Text from a literal of
\* N - 1 bytes, here all equal to c
StringFromLiteral(S, v, n, c) ==
    LET S1 == VecCtor(S, v, n)
        S2 == CopyElems(S1, [S1 EXCEPT !.arrays[NewId(S)].elems = [i \in 0 .. n - 1 |-> c]],
                        NewId(S), 0, NewId(S), n)
    IN [S2 EXCEPT !.vecs[v].size = n]

(***************************************************************************)
(* Vector::rotate (vector.hpp 551-637) and the gcd it calls (math.hpp).    *)
(***************************************************************************)
\* __builtin_ctz(n), n > 0
RECURSIVE ctz(_)
ctz(n) == IF n % 2 = 1 THEN 0 ELSE 1 + ctz(n \div 2)

\* n >> k and n << k
RECURSIVE ShiftRight(_, _)
ShiftRight(n, k) == IF k = 0 THEN n ELSE ShiftRight(n \div 2, k - 1)

RECURSIVE ShiftLeft(_, _)
ShiftLeft(n, k) == IF k = 0 THEN n ELSE ShiftLeft(n * 2, k - 1)

\* the main loop of gcd_impl, a and b odd on entry
RECURSIVE gcd_loop(_, _, _)
gcd_loop(a, b, greatest_power_of_two_divisor) ==
    LET lo == Min(a, b)
        hi == IF a > b THEN a ELSE b
        b1 == hi - lo
    IN IF b1 = 0 THEN ShiftLeft(lo, greatest_power_of_two_divisor)
       ELSE gcd_loop(lo, ShiftRight(b1, ctz(b1)), greatest_power_of_two_divisor)

\* a gcd_impl that does not restore the common power of two
gcd_impl_odd(a, b) ==
    IF a = 0 THEN b
    ELSE IF b = 0 THEN a
    ELSE gcd_loop(ShiftRight(a, ctz(a)), ShiftRight(b, ctz(b)), 0)

gcd_impl(a, b) ==
    IF a = 0 THEN b
    ELSE IF b = 0 THEN a
    ELSE gcd_loop(ShiftRight(a, ctz(a)), ShiftRight(b, ctz(b)), Min(ctz(a), ctz(b)))

\* gcd<usize>
gcd(a, b) == gcd_impl(a, b)

\* 2^16: a usize is two halves of this range
Half == 65536

\* (usize) x % n for an isize x and a usize n > 0: a negative x converts to
\* 2^32 + x before the remainder is taken
U32Rem(x, n) ==
    IF x >= 0 THEN x % n
    ELSE ((((Half % n) * (Half % n)) % n) + (x % n)) % n

\* what a remainder by zero does: the WebAssembly and x86 builds trap, an
\* AArch64 build yields the dividend
DivZeroOutcomes == {"trap", "dividend"}

\* one ring of rotate: the while (true) loop from index j of the ring of i
RECURSIVE RotateRing(_, _, _, _, _, _, _)
RotateRing(S, d, size, shift, i, j, last_element) ==
    LET next0 == j + shift
        next_index == IF next0 >= size THEN next0 - size ELSE next0
    IN IF S.status # "ok" THEN S
       ELSE IF next_index = i THEN Store(S, d, j, last_element)
       ELSE RotateRing(Store(S, d, j, Elem(S, d, next_index)), d, size, shift,
                       i, next_index, last_element)

\* the rings i .. num_rings - 1
RECURSIVE RotateRings(_, _, _, _, _, _)
RotateRings(S, d, size, shift, i, num_rings) ==
    IF S.status # "ok" \/ i >= num_rings THEN S
    ELSE RotateRings(RotateRing(S, d, size, shift, i, i, Elem(S, d, i)),
                     d, size, shift, i + 1, num_rings)

\* a rotate that walks the ring of index 0 only
VecRotate_onering(S, v, shift, dz) ==
    LET V == S.vecs[v]
        rem == IF V.size = 0 THEN shift ELSE U32Rem(shift, V.size)
        shift1 == IF rem < 0 THEN rem + V.size ELSE rem
    IN IF S.status # "ok" THEN S
       ELSE IF V.size = 0 /\ dz = "trap" THEN [S EXCEPT !.status = "trap"]
       ELSE RotateRings(S, V.data, V.size, shift1, 0, 1)

VecRotate(S, v, shift, dz) ==
    LET V == S.vecs[v]
        rem == IF V.size = 0 THEN shift ELSE U32Rem(shift, V.size)
        shift1 == IF rem < 0 THEN rem + V.size ELSE rem
        num_rings == gcd(V.size, shift1)
    IN IF S.status # "ok" THEN S
       ELSE IF V.size = 0 /\ dz = "trap" THEN [S EXCEPT !.status = "trap"]
       ELSE RotateRings(S, V.data, V.size, shift1, 0, num_rings)

\* the elements data[0 .. size - 1] of the vector v, in the state (vs, as)
ContentsOf(vs, as, v) ==
    [i \in 1 .. vs[v].size |-> Elem([arrays |-> as], vs[v].data, i - 1)]

Contents(v) == ContentsOf(vecs, arrays, v)

(***************************************************************************)
(* The caller of the Vector operations.                                    *)
(***************************************************************************)
VCur == VState(vecs, arrays)

VMay == vecOp.status = "ok"

Alive(v) == vecs[v].alive

\* the call name(v, w) has run and left the state R
VInstallA(R, name, v, w, arg) ==
    /\ vecs' = R.vecs
    /\ arrays' = R.arrays
    /\ vecOp' = [op |-> name, v |-> v, w |-> w, arg |-> arg, status |-> R.status]
    /\ UNCHANGED <<memVars, freeOfNull, rot, ref, grow, calc>>

VInstallW(R, name, v, w) == VInstallA(R, name, v, w, << >>)

VInstall(R, name, v) == VInstallW(R, name, v, "")

\* an operation that calls operator new[] needs one of the MaxArrays arrays
MayNew == Len(arrays) < MaxArrays

DoCtor ==
    \E v \in VecNames, n \in CapArgs :
        VMay /\ ~Alive(v) /\ MayNew /\ VInstall(VecCtor(VCur, v, n), "Vector", v)

DoLiteral ==
    \E v \in VecNames, n \in LiteralLens, c \in Elems :
        VMay /\ ~Alive(v) /\ MayNew
        /\ VInstall(StringFromLiteral(VCur, v, n, c), "String", v)

DoCopyCtor ==
    \E v, w \in VecNames :
        VMay /\ ~Alive(v) /\ Alive(w) /\ MayNew
        /\ VInstallW(VecCopyCtor(VCur, v, w), "copy", v, w)

DoMoveCtor ==
    \E v, w \in VecNames :
        VMay /\ ~Alive(v) /\ Alive(w) /\ VInstallW(VecMoveCtor(VCur, v, w), "move", v, w)

DoCopyAssign ==
    \E v, w \in VecNames :
        VMay /\ Alive(v) /\ Alive(w) /\ MayNew
        /\ VInstallW(VecCopyAssign(VCur, v, w), "copy_assign", v, w)

DoMoveAssign ==
    \E v, w \in VecNames :
        VMay /\ Alive(v) /\ Alive(w)
        /\ VInstallW(VecMoveAssign(VCur, v, w), "move_assign", v, w)

DoDtor ==
    \E v \in VecNames : VMay /\ Alive(v) /\ VInstall(VecDtor(VCur, v), "destroy", v)

DoRealloc ==
    \E v \in VecNames, n \in CapArgs :
        VMay /\ Alive(v) /\ MayNew /\ VInstall(VecRealloc(VCur, v, n), "realloc", v)

DoReserve ==
    \E v \in VecNames, n \in CapArgs :
        VMay /\ Alive(v) /\ MayNew
        /\ VInstallA(VecReserve(VCur, v, n), "reserve", v, "", <<n>>)

DoPushBack ==
    \E v \in VecNames, e \in Elems :
        VMay /\ Alive(v) /\ MayNew /\ vecs[v].size < MaxVecSize
        /\ VInstall(VecPushBack(VCur, v, e), "push_back", v)

DoPopBack ==
    \E v \in VecNames :
        VMay /\ Alive(v) /\ vecs[v].size > 0
        /\ VInstall(VecPopBack(VCur, v), "pop_back", v)

DoAttach ==
    \E v, w \in VecNames :
        VMay /\ Alive(v) /\ Alive(w) /\ MayNew
        /\ vecs[v].size + vecs[w].size <= MaxVecSize
        /\ VInstallW(VecAttach(VCur, v, w), "attach", v, w)

DoFill ==
    \E v \in VecNames, n \in 0 .. MaxVecSize, e \in Elems :
        VMay /\ ~Alive(v) /\ MayNew
        /\ VInstallA(VecFill(VCur, v, n, e), "fill", v, "", <<n, e>>)

DoStore ==
    \E v \in VecNames, e \in Elems :
        \E i \in 0 .. vecs[v].size - 1 :
            VMay /\ Alive(v) /\ VInstall(VecStore(VCur, v, i, e), "store", v)

DoClear ==
    \E v \in VecNames : VMay /\ Alive(v) /\ VInstall(VecClear(VCur, v), "clear", v)

NextVec ==
    \/ DoCtor \/ DoLiteral \/ DoCopyCtor \/ DoMoveCtor \/ DoCopyAssign
    \/ DoMoveAssign \/ DoDtor \/ DoRealloc \/ DoReserve \/ DoPushBack
    \/ DoPopBack \/ DoAttach \/ DoClear \/ DoStore \/ DoFill

\* no pure function has been called
NoCalc == [fn |-> "", x |-> 0, y |-> 0, out |-> 0, done |-> FALSE]

\* no push_back / pop_back workload is running
NoRef == [mode |-> "", stack |-> << >>, i |-> 0, pops |-> 0, pending |-> FALSE,
          ret |-> 0, expect |-> 0]

(***************************************************************************)
(* The capacity arithmetic of reserve and push_back on 32-bit words.  A    *)
(* usize is the pair of its 16-bit halves, so that a capacity of 2^31 and  *)
(* the wrap-around of capacity * 2 are computed as the machine does.       *)
(***************************************************************************)
U32(hi, lo) == [hi |-> hi, lo |-> lo]

\* the usize of a small natural number
ToU32(n) == U32(n \div Half, n % Half)

\* a + b modulo 2^32
UAdd(a, b) ==
    U32((a.hi + b.hi + ((a.lo + b.lo) \div Half)) % Half, (a.lo + b.lo) % Half)

\* a + b does not fit a usize
UAddWraps(a, b) == a.hi + b.hi + ((a.lo + b.lo) \div Half) >= Half

ULe(a, b) == a.hi < b.hi \/ (a.hi = b.hi /\ a.lo <= b.lo)

\* while (new_size > new_capacity) new_capacity *= 2: the loop never ends once
\* new_capacity has wrapped to 0
RECURSIVE GrowLoop(_, _, _)
GrowLoop(new_size, new_capacity, wrapped) ==
    IF ULe(new_size, new_capacity)
    THEN [status |-> "ok", capacity |-> new_capacity, wrapped |-> wrapped]
    ELSE IF new_capacity = ToU32(0)
    THEN [status |-> "hang", capacity |-> new_capacity, wrapped |-> wrapped]
    ELSE GrowLoop(new_size, UAdd(new_capacity, new_capacity),
                  wrapped \/ UAddWraps(new_capacity, new_capacity))

\* reserve(extra_size) on a vector of the given size and capacity: how the
\* call ends, the capacity it leaves, and whether a doubling passed 2^32
ReserveU32(size, capacity, extra_size) ==
    IF ULe(UAdd(size, extra_size), capacity)
    THEN [status |-> "ok", capacity |-> capacity, wrapped |-> FALSE]
    ELSE GrowLoop(UAdd(size, extra_size), UAdd(capacity, capacity),
                  UAddWraps(capacity, capacity))

\* the growth step of push_back: realloc(capacity * 2) when size == capacity
PushBackU32(size, capacity) ==
    IF size = capacity
    THEN [status |-> "ok", capacity |-> UAdd(capacity, capacity),
          wrapped |-> UAddWraps(capacity, capacity)]
    ELSE [status |-> "ok", capacity |-> capacity, wrapped |-> FALSE]

NoGrow == [size |-> ToU32(0), capacity |-> ToU32(0), op |-> "", extra |-> ToU32(0),
           status |-> "ok", wrapped |-> FALSE, before |-> ToU32(0)]

\* capacities a vector is constructed with, up to Vector<char>(0x80000000)
GrowCaps == {ToU32(1), ToU32(3), ToU32(min_capacity), U32(Half \div 2, 0),
             U32(Half \div 2 + Half \div 4, 0)}

\* arguments of reserve, up to 0xFFFFFFFF
GrowExtras == {ToU32(0), ToU32(1), ToU32(min_capacity + 1), U32(Half \div 2, 0),
               U32(Half \div 2, 1), U32(Half - 1, Half - 1)}

\* a vector of some capacity holding up to MaxGrowSize elements, or full
InitGrow ==
    /\ InitMem /\ workload = "small"
    /\ freeOfNull = "ok"
    /\ vecs = [v \in VecNames |-> NoVec]
    /\ arrays = << >>
    /\ vecOp = [op |-> "init", v |-> "", w |-> "", arg |-> << >>, status |-> "ok"]
    /\ rot = [orig |-> << >>, k |-> 0, step |-> 0]
    /\ ref = NoRef
    /\ calc = NoCalc
    /\ \E c \in GrowCaps :
          \E sz \in {ToU32(n) : n \in 0 .. MaxGrowSize} \cup {c} :
              /\ ULe(sz, c)
              /\ grow = [NoGrow EXCEPT !.size = sz, !.capacity = c, !.before = c]

GInstall(R, name, extra) ==
    /\ grow' = [grow EXCEPT !.op = name, !.extra = extra, !.status = R.status,
                             !.capacity = R.capacity, !.wrapped = R.wrapped,
                             !.before = grow.capacity]
    /\ UNCHANGED <<memVars, vecs, arrays, vecOp, freeOfNull, rot, ref, calc>>

GrowReserve ==
    \E e \in GrowExtras :
        grow.op = "" /\ GInstall(ReserveU32(grow.size, grow.capacity, e), "reserve", e)

GrowPushBack ==
    grow.op = "" /\ GInstall(PushBackU32(grow.size, grow.capacity), "push_back", ToU32(1))

NextGrow == GrowReserve \/ GrowPushBack

\* a vector of up to MaxRotSize elements on which rotate is called: any
\* elements of RotElems, or the elements 0, 1, ..., n - 1
RotElems == 1 .. 3

InitRotate ==
    /\ InitMem /\ workload = "small"
    /\ \E n \in 0 .. MaxRotSize :
       \E f \in [0 .. n - 1 -> RotElems] \cup {[i \in 0 .. n - 1 |-> i]} :
          /\ vecs = [v \in VecNames |->
                       IF v = "a" THEN [alive |-> TRUE, data |-> 1, size |-> n,
                                        capacity |-> min_capacity]
                       ELSE NoVec]
          /\ arrays = <<[len |-> min_capacity, elems |-> f, live |-> TRUE]>>
          /\ rot = [orig |-> [i \in 1 .. n |-> f[i - 1]], k |-> 0, step |-> 0]
    /\ vecOp = [op |-> "init", v |-> "", w |-> "", arg |-> << >>, status |-> "ok"]
    /\ freeOfNull = "ok"
    /\ ref = NoRef
    /\ grow = NoGrow
    /\ calc = NoCalc

RInstall(R, k) ==
    /\ vecs' = R.vecs
    /\ arrays' = R.arrays
    /\ vecOp' = [op |-> "rotate", v |-> "a", w |-> "", arg |-> << >>, status |-> R.status]
    /\ rot' = [rot EXCEPT !.k = k, !.step = rot.step + 1]
    /\ UNCHANGED <<memVars, freeOfNull, ref, grow, calc>>

\* a.rotate(k)
DoRotate ==
    \E k \in (0 - vecs["a"].size) .. vecs["a"].size, dz \in DivZeroOutcomes :
        VMay /\ rot.step = 0 /\ RInstall(VecRotate(VCur, "a", k, dz), k)

\* a.rotate(-k), after a.rotate(k)
DoRotateBack ==
    \E dz \in DivZeroOutcomes :
        VMay /\ rot.step = 1 /\ RInstall(VecRotate(VCur, "a", 0 - rot.k, dz), 0 - rot.k)

NextRotate == DoRotate \/ DoRotateBack

(***************************************************************************)
(* push_back / pop_back on one default-constructed vector, next to a       *)
(* reference stack.  The workload "primes" is create_prime_array of        *)
(* test/vector.cpp; the workload "any" pushes 0, 1, 2, ... and pops at any *)
(* time the vector is not empty.                                           *)
(***************************************************************************)
\* the loop bound of create_prime_array
PrimeLimit == 1000

\* is_prime (test/vector.cpp 116-133)
is_prime(i) == i >= 2 /\ \A j \in 2 .. i - 1 : i % j # 0

InitStack ==
    /\ InitMem /\ workload = "small"
    /\ freeOfNull = "ok"
    /\ LET R == VecCtor([vecs |-> [v \in VecNames |-> NoVec], arrays |-> << >>,
                         status |-> "ok", freeOfNull |-> "ok"], "a", min_capacity)
       IN vecs = R.vecs /\ arrays = R.arrays
    /\ vecOp = [op |-> "Vector", v |-> "a", w |-> "", arg |-> << >>, status |-> "ok"]
    /\ rot = [orig |-> << >>, k |-> 0, step |-> 0]
    /\ \E m \in {"any", "primes"} : ref = [NoRef EXCEPT !.mode = m]
    /\ grow = NoGrow
    /\ calc = NoCalc

SInstall(R, name, r) ==
    /\ vecs' = R.vecs
    /\ arrays' = R.arrays
    /\ vecOp' = [op |-> name, v |-> "a", w |-> "", arg |-> << >>, status |-> R.status]
    /\ ref' = r
    /\ UNCHANGED <<memVars, freeOfNull, rot, grow, calc>>

\* v.push_back(i) with the next integer i
StackPush ==
    /\ VMay
    /\ ref.mode = "any" => ref.i < MaxPushes
    /\ ref.mode = "primes" => ref.i < PrimeLimit /\ ~ref.pending
    /\ SInstall(VecPushBack(VCur, "a", ref.i), "push_back",
                [ref EXCEPT !.stack = Append(ref.stack, ref.i), !.i = ref.i + 1,
                            !.pending = ~is_prime(ref.i)])

\* v.pop_back(): the code returns data[--size]
StackPop ==
    /\ VMay /\ vecs["a"].size > 0 /\ ref.stack # << >>
    /\ ref.mode = "any" => ref.pops < MaxPops
    /\ ref.mode = "primes" => ref.pending
    /\ SInstall(VecPopBack(VCur, "a"), "pop_back",
                [ref EXCEPT !.stack = SubSeq(ref.stack, 1, Len(ref.stack) - 1),
                            !.pops = ref.pops + 1, !.pending = FALSE,
                            !.ret = Elem(VCur, vecs["a"].data, vecs["a"].size - 1),
                            !.expect = ref.stack[Len(ref.stack)]])

NextStack == StackPush \/ StackPop

(***************************************************************************)
(* Text (string.hpp): a String is a Vector<char>; a character is written   *)
(* as its code.                                                            *)
(***************************************************************************)
\* the literals "", "a", "ab", "ba", "Hello, " and "world!"
Literals == {<< >>, <<97>>, <<97, 98>>, <<98, 97>>,
             <<72, 101, 108, 108, 111, 44, 32>>, <<119, 111, 114, 108, 100, 33>>}
\* no Text is grown beyond this size
MaxTextSize == 13
\* number of operator new[] calls in one run of the Text operations
MaxTextArrays == 4
\* repeat and repeat_in_place are called with counts up to this
MaxRepeat == 3

\* for (i = 0; i < N - 1; i++) data[at + i] = source[i]
RECURSIVE StoreChars(_, _, _, _, _)
StoreChars(S, d, at, source, i) ==
    IF S.status # "ok" \/ i >= Len(source) THEN S
    ELSE StoreChars(Store(S, d, at + i, source[i + 1]), d, at, source, i + 1)

\* String(const char (&source)[N]): a Text from the N - 1 bytes of a literal
String_literal(S, v, source) ==
    LET S1 == VecCtor(S, v, Len(source))
        S2 == StoreChars(S1, S1.vecs[v].data, 0, source, 0)
    IN IF S2.status # "ok" THEN S2 ELSE [S2 EXCEPT !.vecs[v].size = Len(source)]

\* an append that writes the characters and leaves the size as it was
StringPlusEq_nosize(S, v, s) ==
    LET S1 == VecRealloc(S, v, S.vecs[v].size + Len(s))
    IN StoreChars(S1, S1.vecs[v].data, S1.vecs[v].size, s, 0)

\* operator+=(const char (&s)[N])
StringPlusEq(S, v, s) ==
    LET S1 == VecRealloc(S, v, S.vecs[v].size + Len(s))
        S2 == StoreChars(S1, S1.vecs[v].data, S1.vecs[v].size, s, 0)
    IN IF S2.status # "ok" THEN S2
       ELSE [S2 EXCEPT !.vecs[v].size = S1.vecs[v].size + Len(s)]

\* v.starts_with(s)
starts_with(S, v, s) ==
    IF S.vecs[v].size < S.vecs[s].size THEN FALSE
    ELSE \A i \in 0 .. S.vecs[s].size - 1 :
             Elem(S, S.vecs[v].data, i) = Elem(S, S.vecs[s].data, i)

\* v.ends_with(s)
ends_with(S, v, s) ==
    IF S.vecs[v].size < S.vecs[s].size THEN FALSE
    ELSE \A i \in 0 .. S.vecs[s].size - 1 :
             Elem(S, S.vecs[v].data, S.vecs[v].size - S.vecs[s].size + i)
                 = Elem(S, S.vecs[s].data, i)

\* a search that stops one start index early
contains_short(S, v, sequence) ==
    IF S.vecs[sequence].size > S.vecs[v].size THEN FALSE
    ELSE \E i \in 0 .. S.vecs[v].size - S.vecs[sequence].size - 1 :
             \A j \in 0 .. S.vecs[sequence].size - 1 :
                 Elem(S, S.vecs[v].data, i + j) = Elem(S, S.vecs[sequence].data, j)

\* v.contains(sequence): Vector::contains(const Vector<T> &), which String
\* takes over with a using-declaration
contains(S, v, sequence) ==
    IF S.vecs[sequence].size > S.vecs[v].size THEN FALSE
    ELSE \E i \in 0 .. S.vecs[v].size - S.vecs[sequence].size :
             \A j \in 0 .. S.vecs[sequence].size - 1 :
                 Elem(S, S.vecs[v].data, i + j) = Elem(S, S.vecs[sequence].data, j)

\* the bytes a read of data[i] outside the array may find
WildBytes == {0, 97}

\* data[i] as a literal overload reads it: the element when v holds the index
\* i, else a byte of whatever lies at that address (i = -1 stands for the
\* usize index 2^32 - 1, the byte in front of the array)
CharAt(S, v, i, wild) ==
    IF i \in 0 .. S.vecs[v].size - 1 THEN Elem(S, S.vecs[v].data, i) ELSE wild

\* the number of iterations of a comparison loop over s that reads data[at + i]
\* and returns at the first mismatch: Len(s) + 1 when it finds none
Compared(S, v, at, s, wild) ==
    LET Differ(i) == CharAt(S, v, at + i, wild) # s[i + 1]
    IN IF \E i \in 0 .. Len(s) - 1 : Differ(i)
       THEN 1 + CHOOSE i \in 0 .. Len(s) - 1 :
                    Differ(i) /\ \A k \in 0 .. i - 1 : ~Differ(k)
       ELSE Len(s) + 1

\* v.ends_with(s) for a literal s of N - 1 = Len(s) bytes: the result and the
\* indices of data it read
ends_with_literal(S, v, s, wild) ==
    LET size == S.vecs[v].size
        N == Len(s) + 1
        n == Compared(S, v, size - N, s, wild)
    IN IF size < N - 1 THEN [ret |-> FALSE, reads |-> {}]
       ELSE [ret |-> n = Len(s) + 1,
             reads |-> {size - N + i : i \in 0 .. Min(n, Len(s)) - 1}]

\* v.contains(s) for a literal s of N - 1 = Len(s) bytes: the result and the
\* indices of data it read
contains_literal(S, v, s, wild) ==
    LET size == S.vecs[v].size
        N == Len(s) + 1
        Found(i) == Compared(S, v, i, s, wild) = Len(s) + 1
        Starts == 0 .. size - N
        last == IF \E i \in Starts : Found(i)
                THEN CHOOSE i \in Starts : Found(i) /\ \A k \in 0 .. i - 1 : ~Found(k)
                ELSE size - N
    IN IF N - 1 > size THEN [ret |-> FALSE, reads |-> {}]
       ELSE [ret |-> \E i \in Starts : Found(i),
             reads |-> UNION {{i + j : j \in 0 .. Min(Compared(S, v, i, s, wild), Len(s)) - 1} :
                                i \in 0 .. last}]

\* for (i = 0; i < n; i++) for (j = 0; j < size; j++) dst[i * size + j] = src[j]
RECURSIVE TileRows(_, _, _, _, _, _)
TileRows(S, dst, src, size, i, n) ==
    IF S.status # "ok" \/ i >= n THEN S
    ELSE TileRows(CopyElems(S, S, dst, i * size, src, size), dst, src, size, i + 1, n)

\* v.repeat_in_place(n)
repeat_in_place(S, v, n) ==
    LET S1 == VecRealloc(S, v, S.vecs[v].size * n)
        S2 == TileRows(S1, S1.vecs[v].data, S1.vecs[v].data, S1.vecs[v].size, 0, n)
    IN IF S2.status # "ok" THEN S2
       ELSE [S2 EXCEPT !.vecs[v].size = S1.vecs[v].size * n]

\* String r = v.repeat(n): the local s of repeat is returned by value
repeat(S, v, r, n) ==
    LET S1 == VecCtor(S, r, S.vecs[v].size * n)
    IN TileRows(S1, S1.vecs[r].data, S1.vecs[v].data, S.vecs[v].size, 0, n)

\* the Texts a and (possibly) b, each built from a literal
InitText ==
    /\ InitMem /\ workload = "small"
    /\ freeOfNull \in {"ok", free(Machine(<< >>, HeapBase, Null, Null), Null).status}
    /\ \E la \in Literals, lb \in Literals, hasB \in BOOLEAN :
          LET S0 == VState([v \in VecNames |-> NoVec], << >>)
              S1 == String_literal(S0, "a", la)
              S2 == IF hasB THEN String_literal(S1, "b", lb) ELSE S1
          IN vecs = S2.vecs /\ arrays = S2.arrays
    /\ vecOp = [op |-> "String", v |-> "a", w |-> "", arg |-> << >>, status |-> "ok"]
    /\ rot = [orig |-> << >>, k |-> 0, step |-> 0]
    /\ ref = NoRef
    /\ grow = NoGrow
    /\ calc = NoCalc

MayText == VMay /\ Len(arrays) < MaxTextArrays

\* a += L
TextPlusEq ==
    \E L \in Literals :
        /\ MayText /\ vecs["a"].size + Len(L) <= MaxTextSize
        /\ VInstallA(StringPlusEq(VCur, "a", L), "+=", "a", "", L)

\* v.starts_with(w), v.ends_with(w), v.contains(w)
TextQuery ==
    \E v, w \in VecNames :
        /\ VMay /\ Alive(v) /\ Alive(w)
        /\ VInstallA(VCur, "query", v, w,
                     [starts_with |-> starts_with(VCur, v, w),
                      ends_with |-> ends_with(VCur, v, w),
                      contains |-> contains(VCur, v, w)])

\* v.ends_with(L), v.contains(L) for a literal L
TextQueryLiteral ==
    \E v \in VecNames, L \in Literals, wild \in WildBytes :
        /\ VMay /\ Alive(v)
        /\ VInstallA(VCur, "query_literal", v, "",
                     [literal |-> L,
                      ends_with |-> ends_with_literal(VCur, v, L, wild),
                      contains |-> contains_literal(VCur, v, L, wild)])

\* String b = a.repeat(n)
TextRepeat ==
    \E n \in 0 .. MaxRepeat :
        /\ MayText /\ ~Alive("b") /\ vecs["a"].size * n <= MaxTextSize
        /\ VInstallA(repeat(VCur, "a", "b", n), "repeat", "b", "a", n)

\* a.repeat_in_place(n)
TextRepeatInPlace ==
    \E n \in 0 .. MaxRepeat :
        /\ MayText /\ vecs["a"].size * n <= MaxTextSize
        /\ VInstallA(repeat_in_place(VCur, "a", n), "repeat_in_place", "a", "", n)

NextText == TextPlusEq \/ TextQuery \/ TextRepeat \/ TextRepeatInPlace

\* the caller of the literal overloads: Texts built from literals and grown
\* by +=, queried with literals
NextLiteral == TextPlusEq \/ TextQueryLiteral

\* no Vector has been constructed
NoVecs ==
    /\ vecs = [v \in VecNames |-> NoVec]
    /\ arrays = << >>
    /\ vecOp = [op |-> "init", v |-> "", w |-> "", arg |-> << >>, status |-> "ok"]
    /\ rot = [orig |-> << >>, k |-> 0, step |-> 0]
    /\ ref = NoRef
    /\ grow = NoGrow
    /\ calc = NoCalc

InitVecs ==
    /\ NoVecs
    \* free(nullptr) reads the block header at address 0 - sizeof(HeapBlockHeader)
    /\ freeOfNull = free(Machine(<< >>, HeapBase, Null, Null), Null).status

\* The Vector operations start from a fresh heap.  Whether `delete[] data`
\* with data null calls operator delete[] is unspecified in C++: a build that
\* tests the operand first makes no call and the statement ends "ok", a build
\* that makes the call ends as slaw::mem::free(nullptr) does.
InitVec ==
    /\ InitMem /\ workload = "small"
    /\ NoVecs
    /\ freeOfNull \in {"ok", free(Machine(<< >>, HeapBase, Null, Null), Null).status}

(***************************************************************************)
(* String::from_int and String::from_float (string.hpp).                   *)
(***************************************************************************)
\* from_int is called on every 8-bit value, and on the 16-bit values of
\* magnitude up to MaxIntMag or within IntEdge of the ends of the range
MaxIntMag == 300
IntEdge == 2
\* from_float is called on the multiples of 0.5 up to MaxHalves / 2 ...
MaxHalves == 220
\* ... with precisions up to this
MaxPrecision == 2

\* the integer types from_int is instantiated with
IntTypes == {[bits |-> b, signed |-> sg] : b \in {8, 16}, sg \in BOOLEAN}

RECURSIVE Pow2(_)
Pow2(n) == IF n = 0 THEN 1 ELSE 2 * Pow2(n - 1)

RECURSIVE Pow10(_)
Pow10(n) == IF n = 0 THEN 1 ELSE 10 * Pow10(n - 1)

\* min_value<T>() and max_value<T>() (types.hpp)
min_value(T) == IF T.signed THEN 0 - Pow2(T.bits - 1) ELSE 0

max_value(T) == IF T.signed THEN Pow2(T.bits - 1) - 1 ELSE Pow2(T.bits) - 1

\* the conversion of the int x to the integer type T: x modulo 2^bits
ToT(x, T) ==
    LET r == x % Pow2(T.bits)
    IN IF T.signed /\ r > max_value(T) THEN r - Pow2(T.bits) ELSE r

\* log10i is called by from_int and defined nowhere in the sources; the
\* comment above the call takes it as the integer logarithm to base 10
RECURSIVE log10i(_)
log10i(n) == IF n < 10 THEN 0 ELSE 1 + log10i(n \div 10)

\* swap(data[i], data[size - 1 - i]) for i < size / 2
RECURSIVE ReverseLoop(_, _, _, _)
ReverseLoop(S, d, size, i) ==
    IF S.status # "ok" \/ i >= size \div 2 THEN S
    ELSE ReverseLoop(Store(Store(S, d, i, Elem(S, d, size - 1 - i)),
                           d, size - 1 - i, Elem(S, d, i)),
                     d, size, i + 1)

\* Vector::reverse
reverse(S, v) == ReverseLoop(S, S.vecs[v].data, S.vecs[v].size, 0)

\* while (i > 0) { s.push_back('0' + (i % 10)); i /= 10; }
RECURSIVE IntDigits(_, _, _)
IntDigits(S, v, i) ==
    IF S.status # "ok" \/ i <= 0 THEN S
    ELSE IntDigits(VecPushBack(S, v, 48 + (i % 10)), v, i \div 10)

\* String s = String::from_int<T>(i)
from_int(S, v, i, T) ==
    IF i = 0 THEN String_literal(S, v, <<48>>)
    ELSE LET sign == i < 0
             \* i = -i: the negation is made on int and converted back to T
             i1 == IF sign THEN ToT(0 - i, T) ELSE i
             S1 == VecCtor(S, v, log10i(max_value(T)) + 2)
             S2 == IntDigits(S1, v, i1)
             S3 == IF sign THEN VecPushBack(S2, v, 45) ELSE S2
         IN reverse(S3, v)

\* The loop of from_float.  The doubles f and digit_place are held as the
\* integers f * 2 * 10^(precision + 1) and digit_place * 2 * 10^(precision + 1):
\* on a multiple of 0.5 every quotient floor(f / digit_place) of the loop is
\* the exact one.
RECURSIVE FloatDigits(_, _, _, _, _, _, _)
FloatDigits(S, v, f, digit_place, i, left_digits, precision) ==
    IF S.status # "ok" \/ i >= left_digits + precision THEN S
    ELSE LET digit0 == f \div digit_place
             f1 == f - digit0 * digit_place
             place1 == digit_place \div 10
             next_digit == f1 \div place1
             digit == IF i = left_digits + precision - 1 /\ next_digit >= 5
                      THEN digit0 + 1 ELSE digit0
             S1 == IF i = left_digits THEN VecPushBack(S, v, 46) ELSE S
             S2 == VecPushBack(S1, v, 48 + digit)
         IN FloatDigits(S2, v, f1, place1, i + 1, left_digits, precision)

\* String s = String::from_float(f, precision), f being x.halves / 2, negated
\* if x.neg
from_float(S, v, x, precision) ==
    IF x.halves = 0 THEN String_literal(S, v, IF x.neg THEN <<45, 48>> ELSE <<48>>)
    ELSE LET \* floor(max(0.0, log10(f)) + 1)
             left_digits == IF x.halves < 2 THEN 1 ELSE log10i(x.halves \div 2) + 1
             S1 == VecCtor(S, v, left_digits + precision + 2)
             S2 == IF x.neg THEN VecPushBack(S1, v, 45) ELSE S1
         IN FloatDigits(S2, v, x.halves * Pow10(precision + 1),
                        2 * Pow10(left_digits - 1) * Pow10(precision + 1),
                        0, left_digits, precision)

\* the values from_int<T> is called on
IntInputs(T) ==
    {i \in min_value(T) .. max_value(T) :
        \/ i >= 0 - MaxIntMag /\ i <= MaxIntMag
        \/ i - min_value(T) <= IntEdge
        \/ max_value(T) - i <= IntEdge}

InitFormat ==
    /\ InitMem /\ workload = "small"
    /\ vecs = [v \in VecNames |-> NoVec]
    /\ arrays = << >>
    /\ vecOp = [op |-> "init", v |-> "", w |-> "", arg |-> << >>, status |-> "ok"]
    /\ rot = [orig |-> << >>, k |-> 0, step |-> 0]
    /\ ref = NoRef
    /\ grow = NoGrow
    /\ freeOfNull = "ok"
    /\ \/ \E T \in IntTypes : \E i \in IntInputs(T) :
             calc = [fn |-> "from_int", x |-> i, y |-> T, out |-> << >>, done |-> FALSE]
       \/ \E h \in 0 .. MaxHalves, neg \in BOOLEAN, precision \in 0 .. MaxPrecision :
             calc = [fn |-> "from_float", x |-> [neg |-> neg, halves |-> h],
                     y |-> precision, out |-> << >>, done |-> FALSE]

\* the call fn(x, y) has run, left the state R and returned the Text a
FInstall(R) ==
    /\ vecs' = R.vecs
    /\ arrays' = R.arrays
    /\ vecOp' = [op |-> calc.fn, v |-> "a", w |-> "", arg |-> << >>, status |-> R.status]
    /\ calc' = [calc EXCEPT !.done = TRUE, !.out = ContentsOf(R.vecs, R.arrays, "a")]
    /\ UNCHANGED <<memVars, freeOfNull, rot, ref, grow>>

DoFromInt ==
    /\ calc.fn = "from_int" /\ ~calc.done
    /\ FInstall(from_int(VCur, "a", calc.x, calc.y))

DoFromFloat ==
    /\ calc.fn = "from_float" /\ ~calc.done
    /\ FInstall(from_float(VCur, "a", calc.x, calc.y))

NextFormat == DoFromInt \/ DoFromFloat

(***************************************************************************)
(* gcd (math.hpp) called on two unsigned numbers.                          *)
(***************************************************************************)
\* gcd is called on the pairs of numbers up to this
MaxGcdArg == 48

InitGcd ==
    /\ InitMem /\ workload = "small"
    /\ vecs = [v \in VecNames |-> NoVec]
    /\ arrays = << >>
    /\ vecOp = [op |-> "init", v |-> "", w |-> "", arg |-> << >>, status |-> "ok"]
    /\ rot = [orig |-> << >>, k |-> 0, step |-> 0]
    /\ ref = NoRef
    /\ grow = NoGrow
    /\ freeOfNull = "ok"
    /\ \E a \in 0 .. MaxGcdArg, b \in 0 .. MaxGcdArg :
          calc = [fn |-> "gcd", x |-> a, y |-> b, out |-> 0, done |-> FALSE]

\* out = gcd(x, y)
DoGcd ==
    /\ calc.fn = "gcd" /\ ~calc.done
    /\ calc' = [calc EXCEPT !.done = TRUE, !.out = gcd(calc.x, calc.y)]
    /\ UNCHANGED <<memVars, vecs, arrays, vecOp, freeOfNull, rot, ref, grow>>

NextGcd == DoGcd

(***************************************************************************)
(* Specifications.                                                         *)
(***************************************************************************)
\* the allocator under small requests
Init == InitMem /\ workload = "small" /\ InitVecs

Spec == Init /\ [][NextMem]_vars

\* the allocator under the request sizes of the mem_test.cpp walk-through
InitScenario == InitMem /\ workload = "scenario" /\ InitVecs

SpecScenario == InitScenario /\ [][NextMem]_vars

\* the Vector operations
SpecVec == InitVec /\ [][NextVec]_vars

\* push_back / pop_back on a default-constructed vector
SpecStack == InitStack /\ [][NextStack]_vars

\* the Text operations on Texts built from literals
SpecText == InitText /\ [][NextText]_vars

SpecLiteral == InitText /\ [][NextLiteral]_vars

\* from_int and from_float, each called once on one argument
SpecFormat == InitFormat /\ [][NextFormat]_vars

\* gcd called once on one pair of unsigned numbers
SpecGcd == InitGcd /\ [][NextGcd]_vars

\* the growth of reserve and push_back on 32-bit sizes and capacities
SpecGrow == InitGrow /\ [][NextGrow]_vars

\* rotate on the vectors of up to MaxRotSize elements
SpecRotate == InitRotate /\ [][NextRotate]_vars

(***************************************************************************)
(* Properties of the allocator.                                            *)
(***************************************************************************)
Disjoint(a, b) == a.ptr + a.n <= b.ptr \/ b.ptr + b.n <= a.ptr

\* C1: the payload ranges [p, p+n) of the live allocations are pairwise
\* disjoint and each lies inside [heap_base, heap_end).
C1_LiveDisjointInHeap ==
    status = "ok" =>
        /\ \A a \in live : a.ptr >= HeapBase /\ a.ptr + a.n <= heap_end
        /\ \A a, b \in live : a.id # b.id => Disjoint(a, b)

\* C2: walking the physical chain from heap_base by header_size + payload
\* size lands exactly on heap_end.
C2_ChainReachesHeapEnd == status = "ok" => ChainEnd = heap_end

\* C3: every block other than the first has prev_block equal to its immediate
\* physical predecessor, and the first block's prev_block is null.
C3_PrevBlockIsPredecessor ==
    status = "ok" =>
        \A i \in 1 .. Len(Chain) :
            Rd32(mem, Chain[i] + OffPrevBlock) = IF i = 1 THEN Null ELSE Chain[i - 1]

FreeListEnds ==
    FreeList = << >> \/ Rd32(mem, FreeList[Len(FreeList)] + OffNextFree) = Null

\* C4: the list from first_free through next_free holds exactly the blocks of
\* the physical chain whose free bit is set, each once, strictly ascending,
\* and first_free is null exactly when there is no such block.
C4_FreeListExact ==
    status = "ok" =>
        /\ SeqSet(FreeList) = {b \in SeqSet(Chain) : BlockFree(b)}
        /\ \A i \in 1 .. Len(FreeList) - 1 : FreeList[i] < FreeList[i + 1]
        /\ FreeListEnds
        /\ (first_free_block = Null) <=> ({b \in SeqSet(Chain) : BlockFree(b)} = {})

\* C5: no two physically adjacent blocks of the heap are both free.
C5_NoAdjacentFree ==
    status = "ok" =>
        \A i \in 1 .. Len(Chain) - 1 : ~(BlockFree(Chain[i]) /\ BlockFree(Chain[i + 1]))

\* C6: the physically topmost block of the heap is never free.
C6_TopmostNotFree ==
    status = "ok" =>
        \A b \in SeqSet(Chain) :
            b + HeaderSize + Rd32(mem, b + OffSize) = heap_end => ~BlockFree(b)

\* C7: once every pointer handed out by alloc has been freed, heap_end equals
\* heap_base.
C7_AllFreedHeapEmpty ==
    (status = "ok" /\ nAllocs > 0 /\ live = {}) => heap_end = HeapBase

\* C8: free called on a block whose free bit is already set changes neither
\* heap_end, first_free, last_block nor any byte of the heap (block headers
\* and free-list links included).
C8_DoubleFreeNoop ==
    [][(lastOp'.op = "free" /\ lastOp'.wasFree)
        => UNCHANGED <<mem, heap_end, first_free_block, last_block, status>>]_vars

C8_Witness ==
    /\ lastOp.op = "free" /\ lastOp.wasFree /\ status = "ok"
    /\ \E i \in 1 .. Len(Chain) : Chain[i] = lastOp.arg - HeaderSize

Scenario9 ==
    <<<<"alloc", 100>>, <<"alloc", 200>>, <<"alloc", 300>>, <<"free", 1>>,
      <<"alloc", 50>>>>

\* C9: after alloc(100), alloc(200), alloc(300), free of the 100-byte block
\* and alloc(50), the 50-byte block is the upper end of the old 100-byte
\* region, the chain is [free, 50, 200, 300] and the free list is the one
\* residual block of payload 100 - 50 - header_size.
C9_ScenarioLayout ==
    hist = Scenario9 =>
        /\ status = "ok"
        /\ \E d \in live :
              /\ d.id = 4 /\ d.n = 50
              /\ d.ptr >= HeapBase + HeaderSize
              /\ d.ptr + 50 = HeapBase + HeaderSize + 100
        /\ Len(Chain) = 4
        /\ ChainEnd = heap_end
        /\ [i \in 1 .. 4 |-> Rd32(mem, Chain[i] + OffSize)]
              = <<100 - 50 - HeaderSize, 50, 200, 300>>
        /\ [i \in 1 .. 4 |-> BlockFree(Chain[i])] = <<TRUE, FALSE, FALSE, FALSE>>
        /\ FreeList = <<HeapBase>>
        /\ first_free_block = Chain[1]
        /\ FreeListEnds

C9_Witness == hist = Scenario9 /\ status = "ok" /\ lastOp.path = "split"

(***************************************************************************)
(* Properties of Vector.                                                   *)
(***************************************************************************)
\* C10: after any sequence of public Sequence/Text operations, size <= capacity.
C10_SizeWithinCapacity ==
    vecOp.status = "ok" =>
        \A v \in VecNames : Alive(v) => vecs[v].size <= vecs[v].capacity

\* C11: after a.attach(b) for distinct sequences a and b, a holds its old
\* elements followed by b's elements in order, so a.size is the old a.size
\* plus b.size; attaching an empty b leaves a's size and elements unchanged.
C11_AttachAppends ==
    [][(vecOp'.op = "attach" /\ vecOp'.status = "ok" /\ vecOp'.v # vecOp'.w)
        => ContentsOf(vecs', arrays', vecOp'.v)
               = Contents(vecOp'.v) \o Contents(vecOp'.w)]_vars

\* C12: rotate(k) followed by rotate(-k), for |k| <= size, restores the
\* original element order.
C12_RotateInverse ==
    (rot.step = 2 /\ vecOp.status = "ok") => Contents("a") = rot.orig

\* C13: rotate(0) and rotate(size) complete and leave size and every element
\* unchanged, for a vector of any size >= 0.
C13_RotateIdentity ==
    (rot.step = 1 /\ rot.k \in {0, Len(rot.orig)})
        => vecOp.status = "ok" /\ Contents("a") = rot.orig

\* the operations that act on the one vector they are called on
OneVectorOps == {"push_back", "pop_back", "store", "clear", "destroy", "realloc",
                 "reserve"}

ReleasingOps == {"destroy", "clear", "realloc", "copy_assign", "move_assign"}

\* C15: releasing a sequence whose backing pointer is null (destroying,
\* assigning to, reallocating or clearing a moved-from or cleared sequence) is
\* tolerated: the delete[] of the null pointer completes, touching no block
\* header and no allocator global.
C15_NullReleaseTolerated ==
    [][(/\ vecOp'.op \in ReleasingOps /\ vecOp'.v # vecOp'.w
        /\ vecs[vecOp'.v].alive /\ vecs[vecOp'.v].data = Null)
        => (vecOp'.status = "ok"
            /\ UNCHANGED <<mem, heap_end, first_free_block, last_block>>)]_vars

\* the alive vectors whose data pointer is the array id
Owners(id) == {v \in VecNames : vecs[v].alive /\ vecs[v].data = id}

C17_WitnessPop ==
    /\ ref.mode = "any" /\ vecOp.op = "pop_back" /\ vecOp.status = "ok"
    /\ vecs["a"].capacity = 2 * min_capacity
    /\ vecs["a"].size = min_capacity

\* C18: Vector::fill(n, v) returns a sequence of size n whose elements at
\* indices 0 .. n - 1 all equal v.
C18_FillSizeAndElements ==
    (vecOp.op = "fill" /\ vecOp.status = "ok") =>
        /\ vecs[vecOp.v].size = vecOp.arg[1]
        /\ Contents(vecOp.v) = [i \in 1 .. vecOp.arg[1] |-> vecOp.arg[2]]

\* C19: immediately after a growth (a push_back into full storage, or a
\* reserve that reallocates) capacity >= min_capacity, whatever capacity the
\* sequence was constructed with.
C19_GrowthReachesMinCapacity ==
    [][(/\ vecOp'.op \in {"push_back", "reserve"} /\ vecOp'.status = "ok"
        /\ vecs'[vecOp'.v].data # vecs[vecOp'.v].data)
        => vecs'[vecOp'.v].capacity >= min_capacity]_vars

\* C20: when the capacity doubling of reserve or push_back would exceed the
\* 32-bit word size, the call ends in a fatal abort and never continues with
\* a capacity that wrapped around modulo 2^32.
C20_OverflowAborts ==
    (grow.op \in {"reserve", "push_back"} /\ grow.wrapped) => grow.status = "abort"

C22_SelfAndLonger ==
    vecOp.op = "query" =>
        /\ vecOp.status = "ok"
        /\ vecOp.v = vecOp.w =>
              vecOp.arg.starts_with /\ vecOp.arg.ends_with /\ vecOp.arg.contains
        /\ vecs[vecOp.w].size > vecs[vecOp.v].size =>
              ~vecOp.arg.starts_with /\ ~vecOp.arg.ends_with /\ ~vecOp.arg.contains

\* "a" has been asked about "ab", of which it is a proper prefix
C22_Witness ==
    /\ vecOp.op = "query" /\ vecOp.v = "a" /\ vecOp.w = "b"
    /\ Contents("a") = <<97>> /\ Contents("b") = <<97, 98>>
    /\ vecOp.arg = [starts_with |-> FALSE, ends_with |-> FALSE, contains |-> FALSE]

\* the sequence s tiled n times
Tiled(s, n) == [k \in 1 .. Len(s) * n |-> s[((k - 1) % Len(s)) + 1]]

\* C23: s.repeat(n) returns a new Text of size s.size * n holding s's bytes
\* tiled n times and leaves s unchanged; s.repeat_in_place(n) leaves s with
\* that size and content.
C23_RepeatTiles ==
    [][/\ vecOp'.op = "repeat" =>
            /\ vecOp'.status = "ok"
            /\ vecs'["b"].size = vecs["a"].size * vecOp'.arg
            /\ ContentsOf(vecs', arrays', "b") = Tiled(Contents("a"), vecOp'.arg)
            /\ ContentsOf(vecs', arrays', "a") = Contents("a")
       /\ vecOp'.op = "repeat_in_place" =>
            /\ vecOp'.status = "ok"
            /\ vecs'["a"].size = vecs["a"].size * vecOp'.arg
            /\ ContentsOf(vecs', arrays', "a") = Tiled(Contents("a"), vecOp'.arg)]_vars

\* the decimal digits of n >= 0, and the decimal rendering of the integer i
RECURSIVE DigitsOf(_)
DigitsOf(n) == IF n < 10 THEN <<48 + n>> ELSE Append(DigitsOf(n \div 10), 48 + (n % 10))

DecimalOf(i) == IF i < 0 THEN <<45>> \o DigitsOf(0 - i) ELSE DigitsOf(i)

\* C24: from_int(i) completes and returns the decimal rendering of i, for
\* every i of every integer width, the minimum signed values included.
C24_FromIntDecimal ==
    (calc.fn = "from_int" /\ calc.done) =>
        vecOp.status = "ok" /\ calc.out = DecimalOf(calc.x)

\* the text t without a leading '-'
Unsigned(t) == IF t # << >> /\ t[1] = 45 THEN Tail(t) ELSE t

\* t is an optional '-' followed by digits with at most one '.' among them
IsDecimalText(t) ==
    /\ Unsigned(t) # << >>
    /\ \A k \in 1 .. Len(Unsigned(t)) : Unsigned(t)[k] \in (48 .. 57) \cup {46}
    /\ Cardinality({k \in 1 .. Len(Unsigned(t)) : Unsigned(t)[k] = 46}) <= 1
    /\ \E k \in 1 .. Len(Unsigned(t)) : Unsigned(t)[k] # 46

\* the number written by a sequence of digits
RECURSIVE DigitsValue(_)
DigitsValue(ds) ==
    IF ds = << >> THEN 0
    ELSE 10 * DigitsValue(SubSeq(ds, 1, Len(ds) - 1)) + (ds[Len(ds)] - 48)

\* the reference parser: t reads as Mantissa(t) / 10^FractionLen(t), negated
\* if t starts with '-'
IsDigitChar(c) == c # 46

Mantissa(t) ==
    LET m == DigitsValue(SelectSeq(Unsigned(t), IsDigitChar))
    IN IF t[1] = 45 THEN 0 - m ELSE m

FractionLen(t) ==
    IF \E k \in 1 .. Len(t) : t[k] = 46
    THEN Len(t) - (CHOOSE k \in 1 .. Len(t) : t[k] = 46)
    ELSE 0

\* the value x.halves / 2, negated if x.neg, doubled
Doubled(x) == IF x.neg THEN 0 - x.halves ELSE x.halves

Abs(n) == IF n < 0 THEN 0 - n ELSE n

\* C25: for every finite x and precision p, from_float(x, p) completes with a
\* text made of an optional leading '-', decimal digits and at most one '.',
\* which parses back to a value within 5 * 10^(-p) of x; rounding the last
\* digit half-up never yields a non-digit character or an un-carried 10.
C25_FromFloatDecimal ==
    (calc.fn = "from_float" /\ calc.done) =>
        /\ vecOp.status = "ok"
        /\ IsDecimalText(calc.out)
        \* |Mantissa / 10^FractionLen - Doubled / 2| <= 5 / 10^p
        /\ Abs(2 * Mantissa(calc.out) * Pow10(calc.y)
               - Doubled(calc.x) * Pow10(FractionLen(calc.out)) * Pow10(calc.y))
             <= 10 * Pow10(FractionLen(calc.out))

(***************************************************************************)
(* Properties of the numerics.                                             *)
(***************************************************************************)
\* the Euclidean algorithm
RECURSIVE Euclid(_, _)
Euclid(a, b) == IF b = 0 THEN a ELSE Euclid(b, a % b)

\* C26: for unsigned a and b, gcd(a, b) equals the result of the Euclidean
\* algorithm; gcd(0, x) = gcd(x, 0) = x and gcd(0, 0) = 0.
C26_GcdIsEuclid ==
    (calc.fn = "gcd" /\ calc.done) =>
        /\ calc.out = Euclid(calc.x, calc.y)
        /\ calc.x = 0 => calc.out = calc.y
        /\ calc.y = 0 => calc.out = calc.x

\* gcd(12, 18) has returned 6, which carries the common factor 2
C26_Witness == calc.fn = "gcd" /\ calc.done /\ calc.x = 12 /\ calc.y = 18 /\ calc.out = 6

(***************************************************************************)
(* Properties of the tests.                                                *)
(***************************************************************************)
\* C27: after push_back(0), ..., push_back(n - 1) into a default-constructed
\* Vector<int>, vec[i] equals n - 1 - i at every index i < n, which is the
\* pass condition of vec_test.
C27_VecTestPasses ==
    (ref.mode = "any" /\ ref.pops = 0 /\ vecOp.status = "ok") =>
        \A i \in 0 .. ref.i - 1 :
            Elem(VCur, vecs["a"].data, i) = ref.i - 1 - i

(***************************************************************************)
(* Further properties of the allocator.                                    *)
(***************************************************************************)
\* the block that physically precedes b in the heap, Null if there is none
PredOf(b) ==
    IF \E k \in 2 .. Len(Chain) : Chain[k] = b
    THEN Chain[(CHOOSE k \in 2 .. Len(Chain) : Chain[k] = b) - 1]
    ELSE Null

\* C28: when free releases the topmost block while the free list is not
\* empty: if the block's physical predecessor exists and is free, the
\* predecessor is unlinked from the free list (first_free_block moving on if
\* it was the head) and heap_end becomes the predecessor's header address;
\* otherwise heap_end becomes the freed block's own header address, so an
\* allocated predecessor always remains inside the heap.
C28_TailFreeShrinks ==
    [][(lastOp'.op = "free" /\ lastOp'.path \in {"tail_prev", "tail_self"})
        => LET block == lastOp'.arg - HeaderSize
               pred == PredOf(block)
           IN IF pred # Null /\ BlockFree(pred)
              THEN /\ heap_end' = pred
                   /\ first_free_block' # pred
                   /\ pred \notin SeqSet(FreeList')
              ELSE heap_end' = block]_vars

\* C29: after every alloc and free, last_block is null if the heap is empty
\* and otherwise names the topmost block: last_block + header + size = heap_end.
C29_LastBlockIsTopmost ==
    status = "ok" =>
        IF heap_end = HeapBase THEN last_block = Null
        ELSE /\ Chain # << >>
             /\ last_block = Chain[Len(Chain)]
             /\ last_block + HeaderSize + Rd32(mem, last_block + OffSize) = heap_end

\* C30: every block, free or allocated, has a payload of at least two
\* pointers (8 bytes), so that it can hold the two free-list links; when
\* alloc splits a free block, the residual free block keeps that room.
C30_RoomForLinks ==
    status = "ok" =>
        \A k \in 1 .. Len(Chain) :
            Rd32(mem, Chain[k] + OffSize) >= FreeHeaderSize - HeaderSize

\* C31: an alloc served by the split path leaves first_free_block and the
\* prev_free / next_free links of every free block (the split block included)
\* unchanged and keeps the split block at its header address and free-list
\* position; the only change to the free list is that the split block's
\* payload size decreases by exactly need + header_size.
C31_SplitKeepsFreeList ==
    [][(lastOp'.op = "alloc" /\ lastOp'.path = "split" /\ status' = "ok")
        => LET new_block == lastOp'.ret - HeaderSize
               need == Rd32(mem', new_block + OffSize)
               split == Rd32(mem', new_block + OffPrevBlock)
           IN /\ first_free_block' = first_free_block
              /\ FreeList' = FreeList
              /\ split \in SeqSet(FreeList)
              /\ \A b \in SeqSet(FreeList) :
                    /\ Rd32(mem', b + OffPrevFree) = Rd32(mem, b + OffPrevFree)
                    /\ Rd32(mem', b + OffNextFree) = Rd32(mem, b + OffNextFree)
                    /\ Rd32(mem', b + OffSize)
                         = IF b = split
                           THEN Rd32(mem, b + OffSize) - (need + HeaderSize)
                           ELSE Rd32(mem, b + OffSize)]_vars

\* C32: when a freed block has a free physical predecessor and a free
\* physical successor, the three are merged into the predecessor: its payload
\* size grows by exactly 2 * header_size + freed.size + successor.size
\* (header_size being that of the plain block header), both absorbed blocks
\* leave the free list, and the block following the successor has its
\* prev_block set to the predecessor.
C32_MergeThree ==
    [][LET block == lastOp'.arg - HeaderSize
           pred == PredOf(block)
           succ == block + HeaderSize + Rd32(mem, block + OffSize)
           after == succ + HeaderSize + Rd32(mem, succ + OffSize)
       IN (/\ lastOp'.op = "free" /\ ~lastOp'.wasFree /\ status' = "ok"
           /\ block \in SeqSet(Chain)
           /\ pred # Null /\ BlockFree(pred)
           /\ succ \in SeqSet(Chain) /\ BlockFree(succ))
          => /\ Rd32(mem', pred + OffSize)
                  = Rd32(mem, pred + OffSize) + 2 * HeaderSize
                    + Rd32(mem, block + OffSize) + Rd32(mem, succ + OffSize)
             /\ block \notin SeqSet(FreeList')
             /\ succ \notin SeqSet(FreeList')
             /\ after < heap_end => Rd32(mem', after + OffPrevBlock) = pred]_vars

\* C33 as stated: for every request n, alloc uses need = max(n, 2 *
\* pointer_size): a block created by tail-extension has payload size exactly
\* max(n, 2 * pointer_size) and heap_end advances by exactly header_size +
\* max(n, 2 * pointer_size).
C33_ExtendUsesTwoPointers ==
    [][(lastOp'.op = "alloc" /\ lastOp'.path = "extend" /\ status' = "ok")
        => LET two_pointers == FreeHeaderSize - HeaderSize
               need == IF lastOp'.arg < two_pointers THEN two_pointers ELSE lastOp'.arg
           IN /\ Rd32(mem', lastOp'.ret - HeaderSize + OffSize) = need
              /\ heap_end' = heap_end + HeaderSize + need]_vars

\* C33, amended: for every request n, alloc uses need = max(n, size of the
\* free block header); a block created by tail-extension starts at the old
\* heap_end, has payload size exactly that need, and heap_end advances by
\* exactly header_size + need.
C33_ExtendUsesFreeHeaderSize ==
    [][(lastOp'.op = "alloc" /\ lastOp'.path = "extend" /\ status' = "ok")
        => LET need == IF lastOp'.arg < FreeHeaderSize THEN FreeHeaderSize
                       ELSE lastOp'.arg
           IN /\ lastOp'.ret = heap_end + HeaderSize
              /\ Rd32(mem', lastOp'.ret - HeaderSize + OffSize) = need
              /\ heap_end' = heap_end + HeaderSize + need]_vars

\* alloc(16) has extended a heap that already held a block
C33_Witness ==
    /\ lastOp.op = "alloc" /\ lastOp.path = "extend" /\ lastOp.arg = 16
    /\ status = "ok"
    /\ lastOp.ret > HeapBase + HeaderSize
    /\ Rd32(mem, lastOp.ret - HeaderSize + OffSize) = FreeHeaderSize
    /\ heap_end = lastOp.ret + FreeHeaderSize

\* the positions in the free list of the blocks with payload size >= need
Fitting(need) == {k \in 1 .. Len(FreeList) : Rd32(mem, FreeList[k] + OffSize) >= need}

\* C34: alloc(n) serves the request from the first block in free-list order
\* (starting at first_free_block) whose payload size is >= need, even when a
\* later free block fits more tightly, and extends the heap at heap_end only
\* when no free block has payload size >= need.
C34_FirstFit ==
    [][(lastOp'.op = "alloc" /\ status' = "ok")
        => LET need == IF lastOp'.arg < FreeHeaderSize THEN FreeHeaderSize
                       ELSE lastOp'.arg
           IN IF Fitting(need) = {}
              THEN lastOp'.path = "extend" /\ lastOp'.ret = heap_end + HeaderSize
              ELSE LET first == FreeList[CHOOSE k \in Fitting(need) :
                                             \A j \in Fitting(need) : k <= j]
                   IN \/ /\ lastOp'.path = "whole"
                         /\ lastOp'.ret = first + HeaderSize
                      \/ /\ lastOp'.path = "split"
                         /\ lastOp'.ret + need
                              = first + HeaderSize + Rd32(mem, first + OffSize)]_vars

\* alloc(32) has been carved from a 64-byte block at the head of the free
\* list while a 32-byte block stood later in the list
C34_Witness ==
    /\ lastOp.op = "alloc" /\ lastOp.path = "split" /\ lastOp.arg = 32
    /\ status = "ok"
    /\ Len(FreeList) = 2
    /\ FreeList[1] + HeaderSize + 32 = lastOp.ret
    /\ Rd32(mem, FreeList[2] + OffSize) = 32

\* C35: for every non-empty sequence and every shift with 0 <= shift < size,
\* rotate(shift) terminates and leaves new[j] = old[(j + shift) mod size] for
\* every index j (the gcd(size, shift) rings together move every element
\* exactly once); [0,1,2,3,4,5] rotate(2) gives [2,3,4,5,0,1].
C35_RotateLeft ==
    (rot.step = 1 /\ rot.orig # << >> /\ rot.k \in 0 .. Len(rot.orig) - 1) =>
        /\ vecOp.status = "ok"
        /\ Contents("a")
             = [j \in 1 .. Len(rot.orig) |-> rot.orig[((j - 1 + rot.k) % Len(rot.orig)) + 1]]
        /\ (rot.orig = <<0, 1, 2, 3, 4, 5>> /\ rot.k = 2)
              => Contents("a") = <<2, 3, 4, 5, 0, 1>>

\* [0,1,2,3,4,5] has been rotated by 2, in two rings
C35_Witness ==
    /\ rot.step = 1 /\ rot.k = 2 /\ vecOp.status = "ok"
    /\ rot.orig = <<0, 1, 2, 3, 4, 5>>
    /\ Contents("a") = <<2, 3, 4, 5, 0, 1>>

C37_ReserveTerminates ==
    [][vecOp'.op = "reserve"
        => /\ vecOp'.status = "ok"
           /\ vecs'[vecOp'.v].capacity >= vecs[vecOp'.v].size + vecOp'.arg[1]
           /\ vecs'[vecOp'.v].size = vecs[vecOp'.v].size
           /\ ContentsOf(vecs', arrays', vecOp'.v)
                = ContentsOf(vecs, arrays, vecOp'.v)]_vars

\* C38: a.attach(a) terminates: although the loop bound and the write index
\* are the same size field, the copy loop performs exactly as many iterations
\* as a had elements, writing a's old elements once, after the old ones.
C38_SelfAttachTerminates ==
    [][(vecOp'.op = "attach" /\ vecOp'.w = vecOp'.v)
        => LET a == vecOp'.v
               n == vecs[a].size
               old == ContentsOf(vecs, arrays, a)
           IN /\ vecOp'.status = "ok"
              /\ \A i \in 0 .. n - 1 :
                    /\ arrays'[vecs'[a].data].elems[i] = old[i + 1]
                    /\ arrays'[vecs'[a].data].elems[n + i] = old[i + 1]]_vars

\* the state in which the temporary Text(L) has been built beside a and b
WithText(L) ==
    String_literal([VCur EXCEPT !.vecs = [n \in VecNames \cup {"L"} |->
                                            IF n \in VecNames THEN vecs[n] ELSE NoVec]],
                   "L", L)

\* C39: the literal overloads agree with the Text overloads:
\* a.ends_with(L) = a.ends_with(Text(L)) and a.contains(L) = a.contains(Text(L))
\* for every Text a and literal L, also when L matches only at the last
\* possible position and when L is as long as a; neither literal overload
\* reads an index outside [0, a.size).
C39_LiteralOverloadsAgree ==
    vecOp.op = "query_literal" =>
        LET a == vecOp.v
            L == vecOp.arg.literal
        IN /\ vecOp.arg.ends_with.ret = ends_with(WithText(L), a, "L")
           /\ vecOp.arg.contains.ret = contains(WithText(L), a, "L")
           /\ vecOp.arg.ends_with.reads \subseteq 0 .. vecs[a].size - 1
           /\ vecOp.arg.contains.reads \subseteq 0 .. vecs[a].size - 1

\* C40: every header write made by alloc and free targets a block inside
\* [heap_base, heap_end): when a split or a merge rewrites the prev_block of
\* "the next physical block", that block exists (its address is strictly below
\* heap_end), also when the split or merged block is the topmost one.
C40_HeaderWritesInsideHeap ==
    lastOp.op \in {"alloc", "free"} => ~lastOp.oob
====
